---- MODULE Spec2Model ----
(***************************************************************************)
(* Model of framework/linttest/linttest.go: the sanity phase               *)
(* (saneCheckersList), the fixture phase (TestCheckers, checkFile) and the *)
(* matching of a checker's warnings against the expectations of a fixture  *)
(* file (checkFile's loop, checkUnmatched).                                *)
(***************************************************************************)
EXTENDS Integers, Sequences, FiniteSets, Bags, TLC

\* ---------------------------------------------------------------- bounds
NumCheckers == 2    \* checkers returned by linter.GetCheckersInfo()
MaxUnits == 2       \* packages returned by one newPackages call
MaxFiles == 2       \* files (pkg.Syntax) of one package
MaxExp == 2         \* expectations on one line of a fixture file
MaxDiags == 3       \* warnings returned by one Check call
MaxPkgUnits == 3    \* units pkgload.VisitUnits visits in one loadPackages call

Checkers == 1..NumCheckers
Lines == {5, 9}
Texts == {"possible nil dereference", "unused variable"}

\* The nil *string returned by warnings.find when nothing matches.
Nil == <<0, 0>>

RECURSIVE SeqsUpTo(_, _)
SeqsUpTo(S, n) ==
    IF n = 0 THEN {<<>>}
    ELSE LET shorter == SeqsUpTo(S, n - 1)
         IN shorter \cup {Append(s, x) : s \in {t \in shorter : Len(t) = n - 1}, x \in S}

\* type warnings map[int][]string (checkUnmatched ranges over it); an absent
\* line reads as the empty slice.
Warnings == [Lines -> SeqsUpTo(Texts, MaxExp)]
NoWarnings == [l \in Lines |-> <<>>]

\* linter.Warning reduced to what checkFile reads: the line of warn.Node and
\* warn.Text.
Warning == [line : Lines, text : Texts]
Diagnostics == SeqsUpTo(Warning, MaxDiags)

\* The t.Errorf calls of checkFile and checkUnmatched, by kind, line and text.
\* The log of one file is a bag: checkUnmatched ranges over a map, so the
\* order of its lines is unspecified.
Kinds == {"multiple", "unexpected", "unmatched"}
Failure == [kind : Kinds, line : Lines, text : Texts]
NoFailures == EmptyBag
Errorf(fails, kind, line, text) ==
    fails (+) SetToBag({[kind |-> kind, line |-> line, text |-> text]})

Count(fails, kind, line, text) ==
    CopiesIn([kind |-> kind, line |-> line, text |-> text], fails)
RECURSIVE SumOver(_, _)
SumOver(fails, S) ==
    IF S = {} THEN 0
    ELSE LET k == CHOOSE x \in S : TRUE IN CopiesIn(k, fails) + SumOver(fails, S \ {k})
CountKind(fails, kind) == SumOver(fails, {k \in Failure : k.kind = kind})
Total(fails) == BagCardinality(fails)

\* ------------------------------------------------------- fixture scenarios
W(line, text) == [line |-> line, text |-> text]
OneAt5 == [NoWarnings EXCEPT ![5] = <<"possible nil dereference">>]
TwoAt5 == [NoWarnings EXCEPT ![5] = <<"possible nil dereference", "possible nil dereference">>]
\* The fixture files the suite runs over: scenarios A to D of the
\* specification, scenario C with its warnings in the other order, and one
\* expectation that two warnings claim.
Scenarios ==
    { [ws |-> OneAt5, diags |-> <<W(5, "possible nil dereference")>>],
      [ws |-> OneAt5, diags |-> <<>>],
      [ws |-> OneAt5, diags |-> <<W(5, "possible nil dereference"), W(9, "unused variable")>>],
      [ws |-> TwoAt5, diags |-> <<W(5, "possible nil dereference"), W(5, "possible nil dereference")>>],
      [ws |-> OneAt5, diags |-> <<W(9, "unused variable"), W(5, "possible nil dereference")>>],
      [ws |-> OneAt5, diags |-> <<W(5, "possible nil dereference"), W(5, "possible nil dereference"),
                                  W(9, "unused variable")>>] }
\* What Check may return on a file of the sanity package.
SanityReturns == {<<>>, <<W(9, "unused variable")>>}

VARIABLES
    phase,       \* "sanity": in saneCheckersList, "fixture": in TestCheckers' loop, "done"
    pc,          \* "run" | "unit" | "file" | "defers" | "crashed"
    i,           \* index of the range loop: into the registry, then into saneList
    u,           \* packages of pkgs already ranged over in the running subtest
    f,           \* files of pkg.Syntax already ranged over in the current package
    deferred,    \* deferred closures pending in the running sanity subtest
    panicking,   \* a panic is in flight in the running sanity subtest
    ret,         \* the value the last c.Check(f) of the sanity subtest returned
    saneList,    \* var saneList []*linter.CheckerInfo
    sanity,      \* per checker, its sanity subtest: none, running, ok, panic, fatal
    fixtureRuns, \* per checker, the number of fixture subtests started for it
    verdict,     \* per checker, its last fixture subtest: none, running, passed, failed, fatal
    tFailed,     \* t.Failed() of the running fixture subtest
    ws,          \* checkFile: the warnings parsed from the fixture file
    diags,       \* checkFile: what c.Check(f) returned
    matched,     \* checkFile: matched map[*string]struct{}, a pointer as <<line, index>>
    failures,    \* checkFile: the failures reported for the file
    cfState,     \* the last checkFile call: none, checked, open (os.Open failed), read (newWarnings failed), panic (c.Check panicked)
    src,         \* checkFile: the fixture file on disk, as the comment lines above each line
    comments,    \* checkFile: f.Comments, the comment groups of the syntax tree
    seen,        \* checkFile: f.Comments as they were when c.Check(f) was called
    stage,       \* checkFile, statement by statement: none, entry, opened, parsed, stripped, checked, panic, fatal
    units,       \* loadPackages: the units pkgload.VisitUnits visits
    result,      \* loadPackages: the packages returned
    loadState    \* loadPackages: none, call, ok, err

vars == <<phase, pc, i, u, f, deferred, panicking, ret, saneList, sanity,
          fixtureRuns, verdict, tFailed, ws, diags, matched, failures, cfState,
          src, comments, seen, stage, units, result, loadState>>

sanityVars == <<deferred, panicking, ret, saneList, sanity>>
fileVars == <<ws, diags, matched, failures, cfState>>
fixtureVars == <<fixtureRuns, verdict, tFailed>>
stripVars == <<src, comments, seen, stage>>
loadVars == <<units, result, loadState>>
suiteVars == <<phase, pc, i, u, f>>

\* No statement-by-statement checkFile call and no loadPackages call is under
\* way.
NoCalls ==
    /\ src = [l \in Lines |-> <<>>]
    /\ comments = <<>>
    /\ seen = <<>>
    /\ stage = "none"
    /\ units = <<>>
    /\ result = <<>>
    /\ loadState = "none"

Init ==
    /\ phase = "sanity"
    /\ pc = "run"
    /\ i = 1
    /\ u = 0
    /\ f = 0
    /\ deferred = 0
    /\ panicking = FALSE
    /\ ret = <<>>
    /\ saneList = <<>>
    /\ sanity = [c \in Checkers |-> "none"]
    /\ fixtureRuns = [c \in Checkers |-> 0]
    /\ verdict = [c \in Checkers |-> "none"]
    /\ tFailed = FALSE
    /\ ws = NoWarnings
    /\ diags = <<>>
    /\ matched = {}
    /\ failures = NoFailures
    /\ cfState = "none"
    /\ NoCalls

\* ------------------------------------------------------------ sanity phase
\* The closure deferred once per package: r := recover() is non-nil exactly
\* when a panic is in flight; otherwise info is appended to saneList.
DeferredSaneListQuiet(r, list, info) ==
    IF r \/ ret # <<>> THEN list ELSE Append(list, info)
DeferredSaneListFront(r, list, info) == IF r THEN list ELSE <<info>> \o list
DeferredSaneList(r, list, info) == IF r THEN list ELSE Append(list, info)
DeferredSanity(r, status) == IF r THEN "panic" ELSE status

\* for _, info := range linter.GetCheckersInfo(): t.Run(info.Name+"/sanity")
\* up to newPackages, whose t.Fatalf ends the subtest before any defer.
SanityRun ==
    /\ phase = "sanity" /\ pc = "run" /\ i <= NumCheckers
    /\ \/ /\ sanity' = [sanity EXCEPT ![i] = "fatal"]
          /\ i' = i + 1
          /\ UNCHANGED <<pc, u, f, deferred, ret>>
       \/ /\ sanity' = [sanity EXCEPT ![i] = "running"]
          /\ pc' = "unit"
          /\ u' = 0 /\ f' = 0 /\ deferred' = 0 /\ ret' = <<>>
          /\ UNCHANGED i
    /\ UNCHANGED <<phase, panicking, saneList>>
    /\ UNCHANGED <<fixtureVars, fileVars>>
    /\ UNCHANGED <<stripVars, loadVars>>

\* for _, pkg := range pkgs: linter.NewChecker, then the defer statement; or
\* the end of the range, where the closure returns.
SanityUnit ==
    /\ phase = "sanity" /\ pc = "unit"
    /\ \/ /\ u < MaxUnits
          /\ deferred' = deferred + 1
          /\ pc' = "file" /\ f' = 0
          /\ UNCHANGED panicking
       \/ /\ u < MaxUnits
          /\ panicking' = TRUE
          /\ pc' = "defers"
          /\ UNCHANGED <<deferred, f>>
       \/ /\ pc' = "defers"
          /\ UNCHANGED <<deferred, f, panicking>>
    /\ UNCHANGED <<phase, i, u, ret, saneList, sanity>>
    /\ UNCHANGED <<fixtureVars, fileVars>>
    /\ UNCHANGED <<stripVars, loadVars>>

\* for _, f := range pkg.Syntax: _ = c.Check(f), which returns or panics.
SanityFile ==
    /\ phase = "sanity" /\ pc = "file"
    /\ \/ /\ f < MaxFiles
          /\ \E r \in SanityReturns : ret' = r
          /\ f' = f + 1
          /\ UNCHANGED <<pc, u, panicking>>
       \/ /\ f < MaxFiles
          /\ panicking' = TRUE
          /\ pc' = "defers"
          /\ UNCHANGED <<u, f, ret>>
       \/ /\ u' = u + 1
          /\ pc' = "unit"
          /\ UNCHANGED <<f, ret, panicking>>
    /\ UNCHANGED <<phase, i, deferred, saneList, sanity>>
    /\ UNCHANGED <<fixtureVars, fileVars>>
    /\ UNCHANGED <<stripVars, loadVars>>

\* One deferred closure runs (last registered first). recover() stops the
\* panic, so the closures that run after it see r == nil.
SanityDefer ==
    /\ phase = "sanity" /\ pc = "defers" /\ deferred > 0
    /\ saneList' = DeferredSaneList(panicking, saneList, i)
    /\ sanity' = [sanity EXCEPT ![i] = DeferredSanity(panicking, @)]
    /\ panicking' = FALSE
    /\ deferred' = deferred - 1
    /\ UNCHANGED <<phase, pc, i, u, f, ret>>
    /\ UNCHANGED <<fixtureVars, fileVars>>
    /\ UNCHANGED <<stripVars, loadVars>>

\* No deferred closure is left: a panic still in flight leaves the subtest
\* and ends the test binary; otherwise t.Run returns and the range goes on.
SanityReturn ==
    /\ phase = "sanity" /\ pc = "defers" /\ deferred = 0
    /\ \/ /\ panicking
          /\ pc' = "crashed"
          /\ UNCHANGED <<i, u, f, ret, sanity>>
       \/ /\ ~panicking
          /\ sanity' = [sanity EXCEPT ![i] = IF @ = "running" THEN "ok" ELSE @]
          /\ i' = i + 1
          /\ pc' = "run"
          /\ u' = 0 /\ f' = 0 /\ ret' = <<>>
    /\ UNCHANGED <<phase, deferred, panicking, saneList>>
    /\ UNCHANGED <<fixtureVars, fileVars>>
    /\ UNCHANGED <<stripVars, loadVars>>

\* return saneList: TestCheckers starts ranging over it.
SanityDone ==
    /\ phase = "sanity" /\ pc = "run" /\ i > NumCheckers
    /\ phase' = "fixture"
    /\ i' = 1
    /\ UNCHANGED <<pc, u, f>>
    /\ UNCHANGED <<sanityVars, fixtureVars, fileVars>>
    /\ UNCHANGED <<stripVars, loadVars>>

\* ---------------------------------------------------------------- matching
\* warnings.find(line, text): a pointer to the first expectation of the line
\* whose text equals text, nil when there is none. The caller passes the line
\* and the text only, so the result cannot depend on the matched map.
find(wsx, line, text) ==
    LET hits == {j \in 1..Len(wsx[line]) : wsx[line][j] = text}
    IN IF hits = {} THEN Nil
       ELSE <<line, CHOOSE j \in hits : \A k \in hits : j <= k>>

\* matched := make(map[*string]struct{})
NewMatched == {}

MatchOneSilent(wsx, warn, st) ==
    LET w == find(wsx, warn.line, warn.text)
    IN IF w # Nil
       THEN [matched |-> st.matched \cup {w},
             fails |-> IF w \in st.matched
                       THEN Errorf(st.fails, "multiple", warn.line, wsx[w[1]][w[2]])
                       ELSE st.fails]
       ELSE st
MatchOneNoSeen(wsx, warn, st) ==
    LET w == find(wsx, warn.line, warn.text)
    IN IF w # Nil
       THEN [matched |-> st.matched \cup {w}, fails |-> st.fails]
       ELSE [matched |-> st.matched,
             fails |-> Errorf(st.fails, "unexpected", warn.line, warn.text)]
\* The body of checkFile's loop for one warning; st is [matched, fails].
MatchOne(wsx, warn, st) ==
    LET w == find(wsx, warn.line, warn.text)
    IN IF w # Nil
       THEN [matched |-> st.matched \cup {w},
             fails |-> IF w \in st.matched
                       THEN Errorf(st.fails, "multiple", warn.line, wsx[w[1]][w[2]])
                       ELSE st.fails]
       ELSE [matched |-> st.matched,
             fails |-> Errorf(st.fails, "unexpected", warn.line, warn.text)]

RECURSIVE MatchLoopStops(_, _, _)
MatchLoopStops(wsx, ds, st) ==
    IF ds = <<>> \/ Total(st.fails) > 0 THEN st
    ELSE MatchLoopStops(wsx, Tail(ds), MatchOne(wsx, Head(ds), st))
\* for _, warn := range c.Check(f)
RECURSIVE MatchLoop(_, _, _)
MatchLoop(wsx, ds, st) ==
    IF ds = <<>> THEN st
    ELSE MatchLoop(wsx, Tail(ds), MatchOne(wsx, Head(ds), st))

Unmatched(wsx, S) ==
    LET n(l, x) == Cardinality({p \in S : p[1] = l /\ wsx[l][p[2]] = x})
        keys == {k \in Failure : k.kind = "unmatched" /\ n(k.line, k.text) > 0}
    IN [k \in keys |-> n(k.line, k.text)]
Pointers(wsx) == {p \in Lines \X (1..MaxExp) : p[2] <= Len(wsx[p[1]])}
checkUnmatchedCopy(wsx, m, fails) == fails (+) Unmatched(wsx, Pointers(wsx))
\* checkUnmatched: one failure for each expectation whose pointer &sl[i] is
\* not in matched.
checkUnmatched(wsx, m, fails) == fails (+) Unmatched(wsx, Pointers(wsx) \ m)

\* checkFile from matched := make(...) to its end: [matched, fails].
MatchFile(wsx, ds) ==
    LET st == MatchLoop(wsx, ds, [matched |-> NewMatched, fails |-> NoFailures])
    IN [matched |-> st.matched, fails |-> checkUnmatched(wsx, st.matched, st.fails)]

\* ----------------------------------------------------------- fixture phase
FatalfExit ==
    /\ verdict' = [verdict EXCEPT ![saneList[i]] = "fatal"]
    /\ pc' = "crashed"
    /\ UNCHANGED <<phase, i, u, f>>
\* t.Fatalf in a fixture subtest (newPackages, checkFile): the subtest is
\* marked failed and its goroutine exits; t.Run returns and the range over
\* saneList goes on with the next entry.
Fatalf ==
    /\ verdict' = [verdict EXCEPT ![saneList[i]] = "fatal"]
    /\ i' = i + 1
    /\ pc' = "run"
    /\ u' = 0 /\ f' = 0
    /\ UNCHANGED phase

\* The locals of a checkFile call that has returned.
NoFile ==
    /\ ws' = NoWarnings /\ diags' = <<>> /\ matched' = {}
    /\ failures' = NoFailures /\ cfState' = "none"

\* newPackages fails in the subtest of saneList[i].
FixtureLoadFail ==
    /\ phase = "fixture" /\ pc = "run" /\ i <= Len(saneList)
    /\ fixtureRuns' = [fixtureRuns EXCEPT ![saneList[i]] = @ + 1]
    /\ Fatalf
    /\ NoFile
    /\ UNCHANGED tFailed
    /\ UNCHANGED sanityVars
    /\ UNCHANGED <<stripVars, loadVars>>

\* for _, info := range saneCheckersList(t): t.Run(info.Name), newPackages.
FixtureRun ==
    /\ phase = "fixture" /\ pc = "run" /\ i <= Len(saneList)
    /\ fixtureRuns' = [fixtureRuns EXCEPT ![saneList[i]] = @ + 1]
    /\ verdict' = [verdict EXCEPT ![saneList[i]] = "running"]
    /\ tFailed' = FALSE
    /\ pc' = "unit"
    /\ u' = 0 /\ f' = 0
    /\ NoFile
    /\ UNCHANGED <<phase, i>>
    /\ UNCHANGED sanityVars
    /\ UNCHANGED <<stripVars, loadVars>>

\* for _, pkg := range pkgs: linter.NewChecker (a panic here is not
\* recovered); at the end of the range the subtest returns.
FixtureUnit ==
    /\ phase = "fixture" /\ pc = "unit"
    /\ \/ /\ u < MaxUnits
          /\ pc' = "file" /\ f' = 0
          /\ UNCHANGED <<i, u, verdict, fileVars>>
       \/ /\ u < MaxUnits
          /\ pc' = "crashed"
          /\ UNCHANGED <<i, u, f, verdict, fileVars>>
       \/ /\ verdict' = [verdict EXCEPT ![saneList[i]] =
                            IF tFailed THEN "failed" ELSE "passed"]
          /\ i' = i + 1
          /\ pc' = "run"
          /\ u' = 0 /\ f' = 0
          /\ NoFile
    /\ UNCHANGED <<phase, fixtureRuns, tFailed>>
    /\ UNCHANGED sanityVars
    /\ UNCHANGED <<stripVars, loadVars>>

\* checkFile fails before the checker runs: os.Open, then newWarnings.
checkFileFatal ==
    /\ phase = "fixture" /\ pc = "file" /\ f < MaxFiles
    /\ \/ cfState' = "open"
       \/ cfState' = "read"
    /\ ws' = NoWarnings /\ diags' = <<>> /\ matched' = {} /\ failures' = NoFailures
    /\ Fatalf
    /\ UNCHANGED <<fixtureRuns, tFailed>>
    /\ UNCHANGED sanityVars
    /\ UNCHANGED <<stripVars, loadVars>>

\* checkFile on the next file of the package, whose expectations are
\* in.ws and on which c.Check returns in.diags (or panics).
checkFile(in) ==
    /\ phase = "fixture" /\ pc = "file" /\ f < MaxFiles
    /\ \/ /\ pc' = "crashed"
          /\ ws' = in.ws
          /\ diags' = <<>> /\ matched' = {} /\ failures' = NoFailures
          /\ cfState' = "panic"
          /\ UNCHANGED <<f, tFailed>>
       \/ LET r == MatchFile(in.ws, in.diags)
          IN /\ ws' = in.ws
             /\ diags' = in.diags
             /\ matched' = r.matched
             /\ failures' = r.fails
             /\ cfState' = "checked"
             /\ tFailed' = (tFailed \/ Total(r.fails) > 0)
             /\ f' = f + 1
             /\ UNCHANGED pc
    /\ UNCHANGED <<phase, i, u, fixtureRuns, verdict>>
    /\ UNCHANGED sanityVars
    /\ UNCHANGED <<stripVars, loadVars>>

\* The range over pkg.Syntax ends; the locals of the last checkFile call are
\* gone.
FixtureFilesDone ==
    /\ phase = "fixture" /\ pc = "file"
    /\ u' = u + 1
    /\ pc' = "unit"
    /\ NoFile
    /\ UNCHANGED <<phase, i, f>>
    /\ UNCHANGED <<sanityVars, fixtureVars>>
    /\ UNCHANGED <<stripVars, loadVars>>

\* The range over saneList ends: TestCheckers returns.
FixtureDone ==
    /\ phase = "fixture" /\ pc = "run" /\ i > Len(saneList)
    /\ phase' = "done"
    /\ UNCHANGED <<pc, i, u, f>>
    /\ UNCHANGED <<sanityVars, fixtureVars, fileVars>>
    /\ UNCHANGED <<stripVars, loadVars>>

checkFileScenario == \E in \in Scenarios : checkFile(in)

Next ==
    \/ SanityRun
    \/ SanityUnit
    \/ SanityFile
    \/ SanityDefer
    \/ SanityReturn
    \/ SanityDone
    \/ FixtureLoadFail
    \/ FixtureRun
    \/ FixtureUnit
    \/ checkFileFatal
    \/ checkFileScenario
    \/ FixtureFilesDone
    \/ FixtureDone

Spec == Init /\ [][Next]_vars

\* ------------------------------------------------- one fixture file, any input
\* The fixture subtest of one admitted checker is about to check a file whose
\* expectations are ws and on which the checker returns diags.
InitMatch ==
    /\ phase = "fixture"
    /\ pc = "file"
    /\ i = 1
    /\ u = 0
    /\ f = 0
    /\ deferred = 0
    /\ panicking = FALSE
    /\ ret = <<>>
    /\ saneList = <<1>>
    /\ sanity = [c \in Checkers |-> IF c = 1 THEN "ok" ELSE "fatal"]
    /\ fixtureRuns = [c \in Checkers |-> IF c = 1 THEN 1 ELSE 0]
    /\ verdict = [c \in Checkers |-> IF c = 1 THEN "running" ELSE "none"]
    /\ tFailed = FALSE
    /\ ws \in Warnings
    /\ diags \in Diagnostics
    /\ matched = {}
    /\ failures = NoFailures
    /\ cfState = "none"
    /\ NoCalls

checkFileGiven == checkFile([ws |-> ws, diags |-> diags])

NextMatch ==
    \/ checkFileFatal
    \/ checkFileGiven
    \/ FixtureFilesDone

SpecMatch == InitMatch /\ [][NextMatch]_vars

\* ------------------------------------------------------------------ claims
InSaneList(c) == \E k \in 1..Len(saneList) : saneList[k] = c
Occurrences(c) == Cardinality({k \in 1..Len(saneList) : saneList[k] = c})

\* C1: a checker for which a panic was recovered in its sanity subtest is not
\* in saneList, and no fixture subtest is ever started for it.
C1_PanickedNeverSane ==
    \A c \in Checkers :
        sanity[c] = "panic" => ~InSaneList(c) /\ fixtureRuns[c] = 0

\* C2: a panic raised anywhere in a checker's sanity run (NewChecker or Check,
\* on any package) is intercepted: the test binary does not abort in the
\* sanity phase, and once that phase is over every registered checker has had
\* its sanity subtest run to its end.
C2_SanityPanicIntercepted ==
    /\ phase = "sanity" => pc # "crashed"
    /\ phase # "sanity" => \A c \in Checkers : sanity[c] \in {"ok", "panic", "fatal"}

\* C3: when the sanity closure of a checker comes to its end with at least one
\* package ranged over and no panic raised, the checker is in saneList,
\* whatever its Check calls returned; and an entry of saneList is never
\* removed or replaced afterwards.
SanityEndsClean ==
    /\ phase = "sanity" /\ pc = "defers" /\ deferred = 0
    /\ ~panicking /\ sanity[i] = "running" /\ u >= 1
SaneListGrows ==
    /\ Len(saneList') >= Len(saneList)
    /\ \A k \in 1..Len(saneList) : saneList'[k] = saneList[k]
C3_Admission ==
    /\ [](SanityEndsClean => InSaneList(i))
    /\ [][SaneListGrows]_vars
C3_Witness ==
    /\ SanityEndsClean
    /\ ret # <<>>
    /\ InSaneList(i)

\* Of the file checkFile has just checked: the expectations with text x on
\* line l, the warnings with text x on line l, and the expectations of (l, x)
\* that are in matched.
Expected(l, x) == Cardinality({j \in 1..Len(ws[l]) : ws[l][j] = x})
Emitted(l, x) == Cardinality({k \in 1..Len(diags) : diags[k] = W(l, x)})
MatchedAt(l, x) == Cardinality({p \in matched : p[1] = l /\ ws[l][p[2]] = x})
TextOf(p) == ws[p[1]][p[2]]

\* C4: when the N >= 1 expectations of a file all have the same text on the
\* same line and the checker returns exactly N warnings, all with that text
\* on that line, checkFile reports no failure.
C4_DuplicatesPass ==
    cfState = "checked" =>
        \A l \in Lines, x \in Texts :
            LET N == Expected(l, x)
            IN (N >= 1 /\ Cardinality(Pointers(ws)) = N
                       /\ Len(diags) = N /\ Emitted(l, x) = N)
               => Total(failures) = 0

\* C5: for a warning on line l with text x where no expectation of line l has
\* text x, checkFile reports one "unexpected" failure (l, x) per such warning;
\* and an expectation is consumed only when a warning of its own line and its
\* own text was returned.
C5_Unexpected ==
    cfState = "checked" =>
        /\ \A l \in Lines, x \in Texts :
               Expected(l, x) = 0 => Count(failures, "unexpected", l, x) = Emitted(l, x)
        /\ \A p \in matched : p \in Pointers(ws) /\ Emitted(p[1], TextOf(p)) >= 1
C5_Witness ==
    /\ cfState = "checked"
    /\ \E l \in Lines, x \in Texts :
           /\ Emitted(l, x) >= 1 /\ Expected(l, x) = 0
           /\ Count(failures, "unexpected", l, x) = 1
           /\ \E l2 \in Lines \ {l} : Expected(l2, x) >= 1 /\ MatchedAt(l2, x) = 0
           /\ \E x2 \in Texts \ {x} : Expected(l, x2) >= 1 /\ MatchedAt(l, x2) = 0

\* C6: after checkFile, the "unmatched" failures of (l, x) are exactly the
\* expectations of (l, x) that are not in matched, one failure each; when no
\* warning (l, x) was returned that is every expectation of (l, x); with one
\* expectation and no warning (scenario B) the only failure is that one.
C6_Unmatched ==
    cfState = "checked" =>
        /\ \A l \in Lines, x \in Texts :
               /\ Count(failures, "unmatched", l, x) = Expected(l, x) - MatchedAt(l, x)
               /\ Emitted(l, x) = 0 => Count(failures, "unmatched", l, x) = Expected(l, x)
        /\ matched \subseteq Pointers(ws)
        /\ (ws = OneAt5 /\ diags = <<>>) =>
               failures = SetToBag({[kind |-> "unmatched", line |-> 5,
                                     text |-> "possible nil dereference"]})
C6_Witness ==
    /\ cfState = "checked"
    /\ \E l \in Lines, x \in Texts, y \in Texts :
           /\ ws[l] = <<x, y>> /\ x # y
           /\ Emitted(l, x) = 1 /\ Emitted(l, y) = 0
           /\ Count(failures, "unmatched", l, x) = 0
           /\ Count(failures, "unmatched", l, y) = 1

\* C7: for a line l with N >= 1 expectations of text x, more than N warnings
\* (l, x) give at least one "multiple" or "unexpected" failure for (l, x),
\* fewer than N give at least one "unmatched" failure for (l, x), and every
\* warning (l, x) either consumes an expectation of its own or is reported.
C7_ExcessDeficit ==
    cfState = "checked" =>
        \A l \in Lines, x \in Texts :
            LET N == Expected(l, x)
                D == Emitted(l, x)
                reported == Count(failures, "multiple", l, x)
                            + Count(failures, "unexpected", l, x)
            IN N >= 1 =>
                 /\ D > N => reported >= 1
                 /\ D < N => Count(failures, "unmatched", l, x) >= 1
                 /\ MatchedAt(l, x) <= N
                 /\ D <= MatchedAt(l, x) + reported
C7_Witness ==
    /\ cfState = "checked"
    /\ \E l \in Lines, x \in Texts :
           /\ Expected(l, x) = 2 /\ Emitted(l, x) = 3
           /\ Count(failures, "multiple", l, x) >= 1

\* C8: the admitted list holds each checker at most once, a checker's fixture
\* subtest is started at most once and only for a checker whose sanity run
\* ended without failure, and a checker whose fixture subtest has ended
\* (passed, failed) is not run again.
C8_Lifecycle ==
    \A c \in Checkers :
        /\ Occurrences(c) <= 1
        /\ fixtureRuns[c] <= 1
        /\ fixtureRuns[c] >= 1 => InSaneList(c) /\ sanity[c] = "ok"

\* C9: a failing newPackages or a fixture file that cannot be opened or read
\* ends the subtest of that checker at once as failed by t.Fatalf: no failure
\* of the matching is reported in that step, the verdicts of the other
\* checkers are untouched and the range over saneList goes on with the next
\* entry; when TestCheckers returns, every admitted checker has a verdict.
LoadErrorEffect ==
    /\ phase' = "fixture" /\ pc' = "run" /\ i' = i + 1
    /\ verdict'[saneList[i]] = "fatal"
    /\ \A c \in Checkers \ {saneList[i]} : verdict'[c] = verdict[c]
    /\ Total(failures') = 0
    /\ saneList' = saneList
FileAccounted ==
    cfState = "checked" =>
        /\ Len(diags) = Cardinality(matched) + CountKind(failures, "multiple")
                        + CountKind(failures, "unexpected")
        /\ CountKind(failures, "unmatched")
               = Cardinality(Pointers(ws)) - Cardinality(matched)
        /\ \A p \in matched : p \in Pointers(ws) /\ Emitted(p[1], TextOf(p)) >= 1
FailedGoesOn ==
    (phase = "fixture" /\ pc = "file" /\ f < MaxFiles /\ tFailed)
        => ENABLED checkFileScenario
MismatchContinues ==
    (phase = "fixture" /\ pc = "file" /\ f' = f + 1 /\ Total(failures') > 0)
        => /\ pc' = "file" /\ i' = i /\ u' = u
           /\ verdict' = verdict /\ tFailed'
C10_Accumulation ==
    /\ [](FileAccounted /\ FailedGoesOn)
    /\ [][MismatchContinues]_vars
C10_Witness ==
    /\ phase = "fixture" /\ pc = "file" /\ cfState = "checked"
    /\ tFailed /\ u >= 1 /\ Total(failures) = 0 /\ matched # {}

\* ------------------------------------------- checkFile up to the Check call
\* A comment text is the sequence of its characters.
Prefix == <<"/", "/", "/", " ">>      \* "/// "
EmptyComment == <<"/", "/">>          \* "//"
\* strings.HasPrefix
HasPrefix(t, p) == Len(t) >= Len(p) /\ SubSeq(t, 1, Len(p)) = p
\* The text of an annotation: what follows the prefix and its separator.
TrimPrefix(t, p) == SubSeq(t, Len(p) + 1, Len(t))

\* The comments of the fixture files: "//", "// w", "/// w", "///w" and
\* "/// /// w".
CommentTexts ==
    { <<"/", "/">>,
      <<"/", "/", " ", "w">>,
      <<"/", "/", "/", " ", "w">>,
      <<"/", "/", "/", "w">>,
      <<"/", "/", "/", " ", "/", "/", "/", " ", "w">> }

\* A fixture file: for each line of code, the comment lines written right
\* above it (the annotations of that line among them).
FixtureFiles == [Lines -> SeqsUpTo(CommentTexts, MaxExp)]

RECURSIVE Ascending(_)
Ascending(S) ==
    IF S = {} THEN <<>>
    ELSE LET m == CHOOSE x \in S : \A y \in S : x <= y
         IN <<m>> \o Ascending(S \ {m})

\* f.Comments of the parsed file: one comment group per commented line of
\* code, in source order; c.Slash is the line and column of the comment.
ParseComments(file) ==
    LET ls == Ascending({l \in Lines : file[l] # <<>>})
    IN [g \in 1..Len(ls) |->
          [k \in 1..Len(file[ls[g]]) |->
              [slash |-> [line |-> ls[g] - (Len(file[ls[g]]) - k + 1), col |-> 1],
               text |-> file[ls[g]][k]]]]

\* newWarnings(rc): the annotations of the file on disk, per annotated line,
\* each with the text that follows the prefix.
newWarnings(file) ==
    [l \in Lines |->
        LET ann == SelectSeq(file[l], LAMBDA t : HasPrefix(t, Prefix))
        IN [k \in 1..Len(ann) |-> TrimPrefix(ann[k], Prefix)]]

stripDirectivesAll(cgs) ==
    [g \in 1..Len(cgs) |->
        [k \in 1..Len(cgs[g]) |->
            IF HasPrefix(cgs[g][k].text, EmptyComment)
            THEN [cgs[g][k] EXCEPT !.text = EmptyComment]
            ELSE cgs[g][k]]]
stripDirectivesHead(cgs) ==
    [g \in 1..Len(cgs) |->
        [k \in 1..Len(cgs[g]) |->
            IF k = 1 /\ HasPrefix(cgs[g][k].text, Prefix)
            THEN [cgs[g][k] EXCEPT !.text = EmptyComment]
            ELSE cgs[g][k]]]
\* stripDirectives(f): for every comment of every group of f.Comments, the
\* text becomes "//" when it has the prefix "/// ".
stripDirectives(cgs) ==
    [g \in 1..Len(cgs) |->
        [k \in 1..Len(cgs[g]) |->
            IF HasPrefix(cgs[g][k].text, Prefix)
            THEN [cgs[g][k] EXCEPT !.text = EmptyComment]
            ELSE cgs[g][k]]]

\* rc, err := os.Open(testFilename)
cfOpen ==
    /\ stage = "entry"
    /\ \/ stage' = "opened"
       \/ stage' = "fatal"
    /\ UNCHANGED <<src, comments, seen, ws>>
    /\ UNCHANGED <<suiteVars, sanityVars, fixtureVars, loadVars>>
    /\ UNCHANGED <<diags, matched, failures, cfState>>

\* ws, err := newWarnings(rc)
cfNewWarnings ==
    /\ stage = "opened"
    /\ \/ /\ stage' = "parsed"
          /\ ws' = newWarnings(src)
       \/ /\ stage' = "fatal"
          /\ UNCHANGED ws
    /\ UNCHANGED <<src, comments, seen>>
    /\ UNCHANGED <<suiteVars, sanityVars, fixtureVars, loadVars>>
    /\ UNCHANGED <<diags, matched, failures, cfState>>

\* stripDirectives(f); ctx.SetFileInfo(filename, f)
cfStrip ==
    /\ stage = "parsed"
    /\ comments' = stripDirectives(comments)
    /\ stage' = "stripped"
    /\ UNCHANGED <<src, seen, ws>>
    /\ UNCHANGED <<suiteVars, sanityVars, fixtureVars, loadVars>>
    /\ UNCHANGED <<diags, matched, failures, cfState>>

\* c.Check(f): the checker reads the syntax tree, and returns or panics.
cfCheck ==
    /\ stage = "stripped"
    /\ seen' = comments
    /\ \/ stage' = "checked"
       \/ stage' = "panic"
    /\ UNCHANGED <<src, comments, ws>>
    /\ UNCHANGED <<suiteVars, sanityVars, fixtureVars, loadVars>>
    /\ UNCHANGED <<diags, matched, failures, cfState>>

\* The fixture subtest of one admitted checker enters checkFile for a file
\* of its package.
InitStrip ==
    /\ phase = "fixture"
    /\ pc = "file"
    /\ i = 1
    /\ u = 0
    /\ f = 0
    /\ deferred = 0
    /\ panicking = FALSE
    /\ ret = <<>>
    /\ saneList = <<1>>
    /\ sanity = [c \in Checkers |-> IF c = 1 THEN "ok" ELSE "fatal"]
    /\ fixtureRuns = [c \in Checkers |-> IF c = 1 THEN 1 ELSE 0]
    /\ verdict = [c \in Checkers |-> IF c = 1 THEN "running" ELSE "none"]
    /\ tFailed = FALSE
    /\ ws = NoWarnings
    /\ diags = <<>>
    /\ matched = {}
    /\ failures = NoFailures
    /\ cfState = "none"
    /\ src \in FixtureFiles
    /\ comments = ParseComments(src)
    /\ seen = <<>>
    /\ stage = "entry"
    /\ units = <<>>
    /\ result = <<>>
    /\ loadState = "none"

NextStrip ==
    \/ cfOpen
    \/ cfNewWarnings
    \/ cfStrip
    \/ cfCheck

SpecStrip == InitStrip /\ [][NextStrip]_vars

Annotations(l) == SelectSeq(src[l], LAMBDA t : HasPrefix(t, Prefix))
NoPkg == [unit |-> 0, variant |-> "nil"]
Pkg(n, v) == [unit |-> n, variant |-> v]
\* pkgload.Unit number n: Base is never nil, Test and ExternalTest can be.
UnitsOf(n) ==
    { [Base |-> Pkg(n, "base"), Test |-> t, ExternalTest |-> x] :
          t \in {NoPkg, Pkg(n, "test")}, x \in {NoPkg, Pkg(n, "xtest")} }
RECURSIVE UnitLists(_)
UnitLists(n) ==
    IF n = 0 THEN {<<>>}
    ELSE LET shorter == UnitLists(n - 1)
         IN shorter \cup {Append(us, un) : us \in {t \in shorter : Len(t) = n - 1},
                                            un \in UnitsOf(n)}

VisitBoth(res, un) ==
    LET r1 == IF un.ExternalTest # NoPkg THEN Append(res, un.ExternalTest) ELSE res
        r2 == IF un.Test # NoPkg THEN Append(r1, un.Test) ELSE r1
    IN Append(r2, un.Base)
\* The function loadPackages passes to pkgload.VisitUnits.
Visit(res, un) ==
    LET r1 == IF un.ExternalTest # NoPkg THEN Append(res, un.ExternalTest) ELSE res
    IN IF un.Test # NoPkg THEN Append(r1, un.Test) ELSE Append(r1, un.Base)

\* result := pkgs[:0]; pkgload.VisitUnits(pkgs, ...); return result, nil
RECURSIVE VisitUnits(_, _)
VisitUnits(res, us) ==
    IF us = <<>> THEN res ELSE VisitUnits(Visit(res, Head(us)), Tail(us))

\* loadPackages when packages.Load succeeds.
loadPackagesOk ==
    /\ loadState = "call"
    /\ result' = VisitUnits(<<>>, units)
    /\ loadState' = "ok"
    /\ UNCHANGED units
    /\ UNCHANGED <<suiteVars, sanityVars, fixtureVars, fileVars, stripVars>>

\* loadPackages when packages.Load fails: return nil, err.
loadPackagesErr ==
    /\ loadState = "call"
    /\ result' = <<>>
    /\ loadState' = "err"
    /\ UNCHANGED units
    /\ UNCHANGED <<suiteVars, sanityVars, fixtureVars, fileVars, stripVars>>

\* newPackages calls loadPackages in the fixture subtest of the first
\* admitted checker.
InitLoad ==
    /\ phase = "fixture"
    /\ pc = "run"
    /\ i = 1
    /\ u = 0
    /\ f = 0
    /\ deferred = 0
    /\ panicking = FALSE
    /\ ret = <<>>
    /\ saneList = <<1>>
    /\ sanity = [c \in Checkers |-> IF c = 1 THEN "ok" ELSE "fatal"]
    /\ fixtureRuns = [c \in Checkers |-> 0]
    /\ verdict = [c \in Checkers |-> "none"]
    /\ tFailed = FALSE
    /\ ws = NoWarnings
    /\ diags = <<>>
    /\ matched = {}
    /\ failures = NoFailures
    /\ cfState = "none"
    /\ src = [l \in Lines |-> <<>>]
    /\ comments = <<>>
    /\ seen = <<>>
    /\ stage = "none"
    /\ units \in UnitLists(MaxPkgUnits)
    /\ result = <<>>
    /\ loadState = "call"

NextLoad ==
    \/ loadPackagesOk
    \/ loadPackagesErr

SpecLoad == InitLoad /\ [][NextLoad]_vars

\* C13: for every unit visited, the result of loadPackages holds the test
\* variant when the unit has one and the base variant otherwise, never both;
\* it holds the external test variant exactly when the unit has one; it holds
\* nothing else and nothing twice, so a unit contributes one or two packages.
InResult(p) == \E k \in 1..Len(result) : result[k] = p
C13_PackageSelection ==
    loadState = "ok" =>
        /\ \A n \in 1..Len(units) :
               LET un == units[n]
                   mine == {k \in 1..Len(result) : result[k].unit = n}
               IN /\ un.Test # NoPkg => InResult(un.Test) /\ ~InResult(un.Base)
                  /\ un.Test = NoPkg => InResult(un.Base)
                  /\ InResult(Pkg(n, "xtest")) <=> un.ExternalTest # NoPkg
                  /\ ~InResult(Pkg(n, "test")) \/ un.Test # NoPkg
                  /\ Cardinality(mine) \in {1, 2}
        /\ \A k \in 1..Len(result) :
               /\ result[k] # NoPkg
               /\ result[k].unit \in 1..Len(units)
               /\ \A j \in 1..Len(result) : result[j] = result[k] => j = k
C13_Witness ==
    /\ loadState = "ok"
    /\ \E n \in 1..Len(units), m \in 1..Len(units) :
           /\ units[n].Test # NoPkg /\ units[n].ExternalTest # NoPkg
           /\ units[m].Test = NoPkg /\ units[m].ExternalTest = NoPkg
    /\ Len(result) = 4

\* C14: no fixture subtest starts before the sanity subtest of every
\* registered checker has ended; saneList holds the admitted checkers in the
\* order of the registry; the fixture subtests are started one at a time, in
\* the order of saneList.
SanityOver == \A c \in Checkers : sanity[c] \in {"ok", "panic", "fatal"}
Started ==
    IF phase = "sanity" THEN 0
    ELSE IF phase = "done" THEN Len(saneList)
    ELSE IF pc = "run" THEN i - 1 ELSE i
C14_PhaseOrder ==
    /\ (\E c \in Checkers : fixtureRuns[c] > 0 \/ verdict[c] # "none") => SanityOver
    /\ phase # "sanity" => SanityOver
    /\ \A k1 \in 1..Len(saneList), k2 \in 1..Len(saneList) :
           k1 < k2 => saneList[k1] <= saneList[k2]
    /\ Cardinality({c \in Checkers : verdict[c] = "running"}) <= 1
    /\ \A c \in Checkers :
           fixtureRuns[c] = Cardinality({k \in 1..Started : saneList[k] = c})
C14_Witness ==
    /\ phase = "done"
    /\ \A c \in Checkers : InSaneList(c) /\ verdict[c] \in {"passed", "failed"}
====
